---- MODULE Spec2Model ----
(***************************************************************************)
(* Planet economy and construction queue of Galaxy Ascendancy 2.           *)
(*                                                                         *)
(* The model holds the rows of the planets, buildings and                  *)
(* construction_queue tables for the demo planet, the HTTP request         *)
(* handlers of server/routes.ts and the processCompletedConstructions      *)
(* runs of server/gameLogic.ts.  Every storage call is an await point, so  *)
(* a handler is a sequence of steps, one per storage call, each step being *)
(* the storage call together with the synchronous code that follows it up  *)
(* to the next storage call.                                               *)
(*                                                                         *)
(* Units.  The clock `now` counts seconds.  Balances (planet.metal, ...)   *)
(* are held multiplied by SecondsPerHour, so that the accrual              *)
(*     metal + rate * hoursPassed                                          *)
(* is the integer  metal*3600 + rate * secondsPassed  and no fraction is   *)
(* dropped.  Costs are compared and debited in the same unit.  The columns  *)
(* are single-precision reals in the database; the model keeps the exact   *)
(* value.  The demo user and its planet exist (ensureDemoPlayer has run),  *)
(* so the lookups of the user and the planet always find their row.        *)
(***************************************************************************)
EXTENDS Integers, Sequences, FiniteSets, TLC

\* ------------------------------------------------------------------ bounds
\* One operation at a time (SeqSpec): the number of HTTP requests, of
\* processCompletedConstructions runs and of clock advances in one behaviour.
MaxRequests == 3
MaxRuns == 2
MaxTicks == 2
\* Interleaved operations (Spec): the same three numbers.
MaxConcurrentRequests == 2
MaxConcurrentRuns == 2
MaxConcurrentTicks == 1
\* Timer runs without end (LiveSpec): the requests and clock advances in one
\* behaviour.
MaxLiveRequests == 2
MaxLiveTicks == 1
\* The resource ledger alone (LedgerSpec): the highest level of a starter
\* building, the GET requests, the clock advances, and the seconds of a short
\* clock advance (one that the accrual debounces).
MaxLedgerLevel == 2
MaxLedgerRequests == 3
MaxLedgerTicks == 3
ShortSeconds == 2
\* The clock set back (SkewSpec): by how many seconds.
SkewSeconds == 5
\* The progression functions alone (CatalogSpec): the highest level.
MaxLevel == 6
\* Requests that name a slot, on a planet with or without its starter
\* buildings (SlotSpec): the requests, runs and clock advances, and the
\* seconds of one clock advance.
MaxSlotRequests == 2
MaxSlotRuns == 1
MaxSlotTicks == 1
ScenarioSeconds == 61

\* The first requests after a start (BootSpec): the requests.
MaxBootRequests == 4
\* Overlapping runs over due ship builds (ShipSpec): the runs, the ships a
\* build adds and the ships of the type already docked.
MaxShipRuns == 2
BuildQuantity == 3
DockedQuantity == 2

\* One clock advance, in seconds.
TickSeconds == 90

\* Seconds in an hour: hoursPassed = ms / (1000 * 60 * 60).
SecondsPerHour == 3600

\* HTTP handlers that may be in flight at once, and overlapping timer runs.
Clients == {"c1", "c2"}
Timers == {"t1", "t2"}

\* Building types a request may name: two catalog types that the starter
\* planet can pay for (one already built, one not), one it cannot pay for,
\* one the catalog does not define, and the missing field.
ReqTypes == {"metal_mine", "oxygen_processor", "research_lab", "warp_gate", ""}

\* The slots a request may name.
Slots == {0, 1}

\* ----------------------------------------------------------------- catalog
Def(rate, res, m, c, o, time, energy) ==
    [baseProductionRate |-> rate, resourceType |-> res,
     baseCost |-> [metal |-> m, crystal |-> c, oxygen |-> o],
     baseConstructionTime |-> time, energyConsumption |-> energy]

BUILDING_DEFINITIONS ==
    [t \in {"metal_mine", "crystal_refinery", "oxygen_processor", "energy_plant",
            "fleet_dock", "research_lab", "command_center", "shipyard",
            "defense_platform", "trade_hub"} |->
       CASE t = "metal_mine"       -> Def(30, "metal", 60, 15, 0, 60, 10)
         [] t = "crystal_refinery" -> Def(20, "crystal", 48, 24, 0, 90, 15)
         [] t = "oxygen_processor" -> Def(15, "oxygen", 225, 75, 0, 120, 20)
         [] t = "energy_plant"     -> Def(50, "energy", 75, 30, 0, 45, 0)
         [] t = "fleet_dock"       -> Def(0, "none", 400, 200, 100, 300, 30)
         [] t = "research_lab"     -> Def(0, "none", 200, 400, 200, 240, 25)
         [] t = "command_center"   -> Def(0, "none", 100, 50, 50, 120, 15)
         [] t = "shipyard"         -> Def(0, "none", 500, 300, 150, 360, 40)
         [] t = "defense_platform" -> Def(0, "none", 300, 150, 100, 180, 25)
         [] t = "trade_hub"        -> Def(0, "none", 250, 200, 100, 200, 20)]

\* The value of a lookup that finds nothing.
Undefined == [baseProductionRate |-> 0, resourceType |-> "undefined",
              baseCost |-> [metal |-> 0, crystal |-> 0, oxygen |-> 0],
              baseConstructionTime |-> 0, energyConsumption |-> 0]

\* A lookup that falls back to a default definition for an unknown type.
getBuildingDefinitionDefaulting(buildingType) ==
    IF buildingType \in DOMAIN BUILDING_DEFINITIONS
    THEN BUILDING_DEFINITIONS[buildingType]
    ELSE BUILDING_DEFINITIONS["metal_mine"]

getBuildingDefinition(buildingType) ==
    IF buildingType \in DOMAIN BUILDING_DEFINITIONS
    THEN BUILDING_DEFINITIONS[buildingType]
    ELSE Undefined

RECURSIVE Pow(_, _)
Pow(b, e) == IF e = 0 THEN 1 ELSE b * Pow(b, e - 1)

\* x * (num/den)^(level - 1) rounded to the nearest integer.
FloorScaledToNearest(x, num, den, level) ==
    (2 * x * Pow(num, level - 1) + Pow(den, level - 1)) \div (2 * Pow(den, level - 1))

\* Math.floor(x * Math.pow(num/den, level - 1)) in exact arithmetic.
FloorScaled(x, num, den, level) ==
    (x * Pow(num, level - 1)) \div Pow(den, level - 1)

ZeroCost == [metal |-> 0, crystal |-> 0, oxygen |-> 0]

calculateUpgradeCost(buildingType, level) ==
    IF ~(buildingType \in DOMAIN BUILDING_DEFINITIONS) THEN ZeroCost
    ELSE LET b == BUILDING_DEFINITIONS[buildingType].baseCost
         IN [metal   |-> FloorScaled(b.metal, 3, 2, level),
             crystal |-> FloorScaled(b.crystal, 3, 2, level),
             oxygen  |-> FloorScaled(b.oxygen, 3, 2, level)]

calculateProductionRate(buildingType, level) ==
    IF ~(buildingType \in DOMAIN BUILDING_DEFINITIONS) THEN 0
    ELSE IF BUILDING_DEFINITIONS[buildingType].baseProductionRate = 0 THEN 0
    ELSE IF level = 0 THEN 0
    ELSE FloorScaled(BUILDING_DEFINITIONS[buildingType].baseProductionRate * level,
                     11, 10, level)

\* A construction time that does not grow with the level.
calculateConstructionTimeOfBase(buildingType, level) ==
    IF ~(buildingType \in DOMAIN BUILDING_DEFINITIONS) THEN 60
    ELSE BUILDING_DEFINITIONS[buildingType].baseConstructionTime

calculateConstructionTime(buildingType, level) ==
    IF ~(buildingType \in DOMAIN BUILDING_DEFINITIONS) THEN 60
    ELSE FloorScaled(BUILDING_DEFINITIONS[buildingType].baseConstructionTime,
                     6, 5, level)

calculateEnergyConsumption(buildingType, level) ==
    IF ~(buildingType \in DOMAIN BUILDING_DEFINITIONS) THEN 0
    ELSE BUILDING_DEFINITIONS[buildingType].energyConsumption * level

\* The client's copy of the catalog and of the formulas
\* (client/constants/gameData.ts); the functions take the definition itself.
gameData_BUILDING_DEFINITIONS ==
    [t \in {"metal_mine", "crystal_refinery", "oxygen_processor", "energy_plant",
            "fleet_dock", "research_lab", "command_center", "shipyard",
            "defense_platform", "trade_hub"} |->
       CASE t = "metal_mine"       -> Def(30, "metal", 60, 15, 0, 60, 10)
         [] t = "crystal_refinery" -> Def(20, "crystal", 48, 24, 0, 90, 15)
         [] t = "oxygen_processor" -> Def(15, "oxygen", 225, 75, 0, 120, 20)
         [] t = "energy_plant"     -> Def(50, "energy", 75, 30, 0, 45, 0)
         [] t = "fleet_dock"       -> Def(0, "none", 400, 200, 100, 300, 30)
         [] t = "research_lab"     -> Def(0, "none", 200, 400, 200, 240, 25)
         [] t = "command_center"   -> Def(0, "none", 100, 50, 50, 120, 15)
         [] t = "shipyard"         -> Def(0, "none", 500, 300, 150, 360, 40)
         [] t = "defense_platform" -> Def(0, "none", 350, 150, 100, 300, 35)
         [] t = "trade_hub"        -> Def(0, "none", 300, 200, 100, 240, 20)]

gameData_calculateUpgradeCost(building, level) ==
    [metal   |-> FloorScaled(building.baseCost.metal, 3, 2, level),
     crystal |-> FloorScaled(building.baseCost.crystal, 3, 2, level),
     oxygen  |-> FloorScaled(building.baseCost.oxygen, 3, 2, level)]

gameData_calculateConstructionTime(building, level) ==
    FloorScaled(building.baseConstructionTime, 6, 5, level)

gameData_calculateEnergyConsumption(building, level) ==
    building.energyConsumption * level

\* ------------------------------------------------------------------- state
VARIABLES
    now,        \* the wall clock, in seconds
    ticks,      \* clock advances so far
    planet,     \* the planets row of the demo player
    buildings,  \* the buildings rows, indexed by id (1..Len)
    queue,      \* the construction_queue rows
    nextId,     \* the next construction_queue id
    req,        \* per HTTP handler: its position and locals
    res,        \* the response sent by the last step, if it sent one
    started,    \* HTTP requests started so far
    run,        \* per processCompletedConstructions run: position and locals
    runs,       \* processCompletedConstructions runs started so far
    spent,      \* summed cost of the upgrades answered with success
    debited,    \* summed cost of the debits written
    inRow,      \* runs completed in a row, with no other operation and no
                \* clock advance since the first of them started
    calc,       \* an evaluation of the four progression functions: its
                \* arguments and, once evaluated, its results
    demoInitialized,  \* the module flag of routes.ts
    users,      \* the users rows with username "demo" (their number)
    planets,    \* the planets rows of the demo user (their number)
    ensure,     \* per HTTP request: its position in ensureDemoPlayer
    ships,      \* the ships rows of the planet, indexed by id (1..Len)
    shipQueue   \* the ship build queue rows

vars == <<now, ticks, planet, buildings, queue, nextId, req, res, started,
          run, runs, spent, debited, inRow, calc,
          demoInitialized, users, planets, ensure, ships, shipQueue>>

NoPlanet == [metal |-> 0, crystal |-> 0, oxygen |-> 0, energy |-> 0,
             energyCapacity |-> 0, lastResourceUpdate |-> 0]

NoRates == [metalRate |-> 0, crystalRate |-> 0, oxygenRate |-> 0,
            energyProduction |-> 0, energyConsumption |-> 0,
            effectiveMetalRate |-> 0, effectiveCrystalRate |-> 0,
            effectiveOxygenRate |-> 0]

NoReq == [pc |-> "idle", op |-> "none", buildingType |-> "", slotIndex |-> 0,
          planet |-> NoPlanet, now |-> 0, rates |-> NoRates,
          updatedPlanet |-> NoPlanet, existingBuilding |-> 0,
          targetLevel |-> 0, cost |-> ZeroCost, completesAt |-> 0,
          position |-> 0]

NoResponse == [client |-> "", status |-> "none"]

Response(c, status) == [client |-> c, status |-> status]

NoRun == [pc |-> "idle", completed |-> <<>>, completedShips |-> <<>>,
          existingShip |-> 0, existingQuantity |-> 0]

\* ensureDemoPlayer has run: the demo user and its planet exist.
Bootstrapped ==
    /\ demoInitialized = TRUE
    /\ users = 1
    /\ planets = 1
    /\ ensure = [c \in Clients |-> "idle"]

\* No ship has been built or ordered.
NoFleet ==
    /\ ships = <<>>
    /\ shipQueue = {}

NoCalc == [buildingType |-> "", level |-> 0, evaluated |-> FALSE,
           cost |-> ZeroCost, production |-> 0, time |-> 0, energy |-> 0,
           clientEvaluated |-> FALSE,
           clientCost |-> ZeroCost, clientTime |-> 0, clientEnergy |-> 0]

\* The planets row as createPlanet leaves it (column defaults), balances in
\* units of 1/SecondsPerHour.
NewPlanet == [metal |-> 500 * SecondsPerHour, crystal |-> 300 * SecondsPerHour,
              oxygen |-> 200 * SecondsPerHour, energy |-> 0,
              energyCapacity |-> 100, lastResourceUpdate |-> 0]

\* The buildings row that createBuilding inserts: no caller passes a
\* slotIndex, so it takes the column default 0; isConstructing defaults to false.
NewBuilding(buildingType, level) ==
    [buildingType |-> buildingType, slotIndex |-> 0, level |-> level,
     isConstructing |-> FALSE]

\* initializeNewPlayer: the starter buildings of the demo planet.
StarterBuildings == << NewBuilding("metal_mine", 1),
                       NewBuilding("crystal_refinery", 1),
                       NewBuilding("energy_plant", 1) >>

Init ==
    /\ now = 0
    /\ ticks = 0
    /\ planet = NewPlanet
    /\ buildings = StarterBuildings
    /\ queue = {}
    /\ nextId = 1
    /\ req = [c \in Clients |-> NoReq]
    /\ res = NoResponse
    /\ started = 0
    /\ run = [t \in Timers |-> NoRun]
    /\ runs = 0
    /\ spent = ZeroCost
    /\ debited = ZeroCost
    /\ inRow = 0
    /\ calc = NoCalc
    /\ Bootstrapped
    /\ NoFleet

\* ------------------------------------------------------- resource ledger
\* The buildings of one resource type, those under construction included.
ProducingAlsoConstructing(bs, resourceType) ==
    {i \in DOMAIN bs : /\ bs[i].buildingType \in DOMAIN BUILDING_DEFINITIONS
                       /\ BUILDING_DEFINITIONS[bs[i].buildingType].resourceType = resourceType}

\* The operational buildings of one resource type.
Producing(bs, resourceType) ==
    {i \in DOMAIN bs : /\ ~bs[i].isConstructing
                       /\ bs[i].buildingType \in DOMAIN BUILDING_DEFINITIONS
                       /\ BUILDING_DEFINITIONS[bs[i].buildingType].resourceType = resourceType}

Operational(bs) ==
    {i \in DOMAIN bs : /\ ~bs[i].isConstructing
                       /\ bs[i].buildingType \in DOMAIN BUILDING_DEFINITIONS}

RECURSIVE SumProduction(_, _)
SumProduction(bs, S) ==
    IF S = {} THEN 0
    ELSE LET i == CHOOSE x \in S : TRUE
         IN calculateProductionRate(bs[i].buildingType, bs[i].level)
            + SumProduction(bs, S \ {i})

RECURSIVE SumConsumption(_, _)
SumConsumption(bs, S) ==
    IF S = {} THEN 0
    ELSE LET i == CHOOSE x \in S : TRUE
         IN calculateEnergyConsumption(bs[i].buildingType, bs[i].level)
            + SumConsumption(bs, S \ {i})

\* The energy efficiency is the double  q = production / consumption, and an
\* effective rate is  Math.floor(baseRate * q).  Both roundings are to the
\* nearest double (53 significant bits).  The operators below follow them on
\* integers for 0 < production < consumption.

\* The E >= 1 with  2^-E <= production / consumption < 2^(1-E).
RECURSIVE BinaryExponent(_, _, _)
BinaryExponent(production, consumption, e) ==
    IF production * Pow(2, e) >= consumption THEN e
    ELSE BinaryExponent(production, consumption, e + 1)

\* (production * 2^steps) % consumption: what the division leaves behind the
\* last bit of the quotient that is kept.
RECURSIVE DivisionRemainder(_, _, _)
DivisionRemainder(production, consumption, steps) ==
    IF steps = 0 THEN production % consumption
    ELSE (2 * DivisionRemainder(production, consumption, steps - 1)) % consumption

\* The L with 2^L <= k < 2^(L+1).
RECURSIVE FloorLog2(_)
FloorLog2(k) == IF k < 2 THEN 0 ELSE 1 + FloorLog2(k \div 2)

\* baseRate * production / consumption is the integer k.  The quotient q was
\* rounded down when the remainder is under half of the divisor; the product
\* baseRate * q then lies below k by  baseRate * remainder / consumption
\* units of the last bit of q, and it is rounded back up to k only when that
\* is at most half the distance from k to the double below k.
ProductBelow(baseRate, production, consumption, k) ==
    LET e == BinaryExponent(production, consumption, 1)
        remainder == DivisionRemainder(production, consumption, 52 + e)
        l == FloorLog2(k)
        half == e + l - (IF k = Pow(2, l) THEN 1 ELSE 0)
    IN /\ remainder /= 0
       /\ 2 * remainder < consumption
       /\ 2 * baseRate * remainder > consumption * Pow(2, half)

\* Math.floor(baseRate * energyEfficiency), where energyEfficiency is
\* Math.min(1, production / consumption) when consumption > 0 and 1 otherwise.
EffectiveRate(baseRate, production, consumption) ==
    IF consumption = 0 \/ production >= consumption THEN baseRate
    ELSE IF production = 0 THEN 0
    ELSE LET k == (baseRate * production) \div consumption
         IN IF (baseRate * production) % consumption /= 0 THEN k
            ELSE IF ProductBelow(baseRate, production, consumption, k) THEN k - 1
            ELSE k

calculateResourceRates(bs) ==
    LET metalRate   == 20 + SumProduction(bs, Producing(bs, "metal"))
        crystalRate == 10 + SumProduction(bs, Producing(bs, "crystal"))
        oxygenRate  == 5 + SumProduction(bs, Producing(bs, "oxygen"))
        production  == SumProduction(bs, Producing(bs, "energy"))
        consumption == SumConsumption(bs, Operational(bs))
    IN [metalRate |-> metalRate, crystalRate |-> crystalRate,
        oxygenRate |-> oxygenRate,
        energyProduction |-> production, energyConsumption |-> consumption,
        effectiveMetalRate   |-> EffectiveRate(metalRate, production, consumption),
        effectiveCrystalRate |-> EffectiveRate(crystalRate, production, consumption),
        effectiveOxygenRate  |-> EffectiveRate(oxygenRate, production, consumption)]

\* A debounce that lets a negative elapsed time through.
DebouncedForwardOnly(seconds) == 0 <= seconds /\ 1000 * seconds < SecondsPerHour

\* hoursPassed < 0.001, with hoursPassed = seconds / 3600.
Debounced(seconds) == 1000 * seconds < SecondsPerHour

\* An accrual that takes the elapsed time with the wrong sign.
AccruedBackwards(p, rates, at) ==
    LET seconds == p.lastResourceUpdate - at
    IN [metal   |-> p.metal + rates.effectiveMetalRate * seconds,
        crystal |-> p.crystal + rates.effectiveCrystalRate * seconds,
        oxygen  |-> p.oxygen + rates.effectiveOxygenRate * seconds,
        energy  |-> rates.energyProduction,
        energyCapacity |-> rates.energyConsumption,
        lastResourceUpdate |-> at]

\* An accrual that credits the elapsed time and leaves lastResourceUpdate as
\* it was, so that the next call credits the same time again.
AccruedKeepingTimestamp(p, rates, at) ==
    LET seconds == at - p.lastResourceUpdate
    IN [metal   |-> p.metal + rates.effectiveMetalRate * seconds,
        crystal |-> p.crystal + rates.effectiveCrystalRate * seconds,
        oxygen  |-> p.oxygen + rates.effectiveOxygenRate * seconds,
        energy  |-> rates.energyProduction,
        energyCapacity |-> rates.energyConsumption,
        lastResourceUpdate |-> p.lastResourceUpdate]

\* The row that updatePlanetResources writes: the balances of the snapshot p
\* plus rate * hoursPassed, the energy snapshot and lastResourceUpdate.
Accrued(p, rates, at) ==
    LET seconds == at - p.lastResourceUpdate
    IN [metal   |-> p.metal + rates.effectiveMetalRate * seconds,
        crystal |-> p.crystal + rates.effectiveCrystalRate * seconds,
        oxygen  |-> p.oxygen + rates.effectiveOxygenRate * seconds,
        energy  |-> rates.energyProduction,
        energyCapacity |-> rates.energyConsumption,
        lastResourceUpdate |-> at]

\* ----------------------------------------------------------------- storage
\* storage.getBuildingByType: the ids of the rows of that type; the query
\* takes the first row the database returns, 0 stands for undefined.
getBuildingByType(bs, buildingType) ==
    LET rows == {i \in DOMAIN bs : bs[i].buildingType = buildingType}
    IN IF rows = {} THEN {0} ELSE rows

\* A query that returns a due entry only while it is at the head of the queue.
getCompletedConstructionsHeadOnly(q, at) ==
    {e \in q : e.completesAt <= at /\ e.position = 0}

\* A fetch that returns every outstanding entry, due or not.
getCompletedConstructionsAll(q, at) == q

\* storage.getCompletedConstructions: completesAt <= new Date().
getCompletedConstructions(q, at) == {e \in q : e.completesAt <= at}

\* A delete that matches no row.
removeFromQueueNothing(q, id) == q

\* storage.removeFromQueue: delete by id; deleting a missing row is not an error.
removeFromQueue(q, id) == {e \in q : e.id /= id}

\* storage.getCompletedShipBuilds: the ship builds with completesAt <= new Date().
getCompletedShipBuilds(q, at) == {b \in q : b.completesAt <= at}

\* storage.getShipByType: a ships row of the type, 0 for undefined.
getShipByType(ss, shipType) ==
    LET rows == {i \in DOMAIN ss : ss[i].shipType = shipType}
    IN IF rows = {} THEN {0} ELSE rows

\* storage.removeFromShipQueue: delete by id.
removeFromShipQueue(q, id) == {b \in q : b.id /= id}

\* The orders in which the database may return a set of rows.
RECURSIVE Orders(_)
Orders(S) ==
    IF S = {} THEN {<<>>}
    ELSE UNION {{<<e>> \o o : o \in Orders(S \ {e})} : e \in S}

\* ------------------------------------------------------- upgrade an admit
Scaled(cost) == [metal   |-> cost.metal * SecondsPerHour,
                 crystal |-> cost.crystal * SecondsPerHour,
                 oxygen  |-> cost.oxygen * SecondsPerHour]

\* A check that is satisfied as soon as one balance covers its cost.
AffordableAnyResource(p, cost) ==
    \/ p.metal >= Scaled(cost).metal
    \/ p.crystal >= Scaled(cost).crystal
    \/ p.oxygen >= Scaled(cost).oxygen

\* A check that looks at the metal balance only.
AffordableMetalOnly(p, cost) == p.metal >= Scaled(cost).metal

\* The negation of the condition of the "Insufficient resources" answer.
Affordable(p, cost) ==
    /\ p.metal >= Scaled(cost).metal
    /\ p.crystal >= Scaled(cost).crystal
    /\ p.oxygen >= Scaled(cost).oxygen

\* A lookup that takes the level of a missing row as 1, the column default.
CurrentLevelOrOne(bs, id) == IF id = 0 THEN 1 ELSE bs[id].level

\* existingBuilding?.level || 0
CurrentLevel(bs, id) == IF id = 0 THEN 0 ELSE bs[id].level

Idle(c) == req[c].pc = "idle"

\* Where updatePlanetResources returns to.
AfterAccrual(c) == IF req[c].op = "upgrade" THEN "reread" ELSE "report"

\* POST /api/buildings/upgrade up to the call of updatePlanetResources:
\* the body is validated and the user and planet are looked up.  The handler
\* takes buildingType from the body and reads no other field of it; the
\* slotIndex that the body names stays with the request.
StartUpgradeSlot(c, buildingType, slotIndex) ==
    /\ Idle(c)
    /\ started' = started + 1
    /\ IF buildingType = ""
       THEN /\ res' = Response(c, "TypeRequired")
            /\ UNCHANGED req
       ELSE IF getBuildingDefinition(buildingType) = Undefined
       THEN /\ res' = Response(c, "InvalidType")
            /\ UNCHANGED req
       ELSE /\ res' = NoResponse
            /\ req' = [req EXCEPT ![c] = [NoReq EXCEPT !.pc = "accrue",
                                                       !.op = "upgrade",
                                                       !.buildingType = buildingType,
                                                       !.slotIndex = slotIndex]]
    /\ UNCHANGED <<now, ticks, planet, buildings, queue, nextId, run, runs, spent>>
    /\ debited' = debited
    /\ inRow' = 0
    /\ UNCHANGED <<calc, demoInitialized, users, planets, ensure, ships, shipQueue>>

\* The request of a client that names no slot.
StartUpgrade(c, buildingType) == StartUpgradeSlot(c, buildingType, 0)

\* GET /api/player/resources up to the call of updatePlanetResources.
StartResources(c) ==
    /\ Idle(c)
    /\ started' = started + 1
    /\ res' = NoResponse
    /\ req' = [req EXCEPT ![c] = [NoReq EXCEPT !.pc = "accrue", !.op = "resources"]]
    /\ UNCHANGED <<now, ticks, planet, buildings, queue, nextId, run, runs, spent>>
    /\ debited' = debited
    /\ inRow' = 0
    /\ UNCHANGED <<calc, demoInitialized, users, planets, ensure, ships, shipQueue>>

\* updatePlanetResources: getPlanet, the clock is read, and a call with
\* hoursPassed < 0.001 returns the row as read.
AccrueRead(c) ==
    /\ req[c].pc = "accrue"
    /\ IF Debounced(now - planet.lastResourceUpdate)
       THEN req' = [req EXCEPT ![c].pc = AfterAccrual(c)]
       ELSE req' = [req EXCEPT ![c].pc = "rates", ![c].planet = planet, ![c].now = now]
    /\ res' = NoResponse
    /\ UNCHANGED <<now, ticks, planet, buildings, queue, nextId, started,
                   run, runs, spent>>
    /\ debited' = debited
    /\ inRow' = 0
    /\ UNCHANGED <<calc, demoInitialized, users, planets, ensure, ships, shipQueue>>

\* updatePlanetResources: calculateResourceRates reads the buildings.
AccrueRates(c) ==
    /\ req[c].pc = "rates"
    /\ req' = [req EXCEPT ![c].pc = "write",
                          ![c].rates = calculateResourceRates(buildings)]
    /\ res' = NoResponse
    /\ UNCHANGED <<now, ticks, planet, buildings, queue, nextId, started,
                   run, runs, spent>>
    /\ debited' = debited
    /\ inRow' = 0
    /\ UNCHANGED <<calc, demoInitialized, users, planets, ensure, ships, shipQueue>>

\* updatePlanetResources: the accrued row is written.
AccrueWrite(c) ==
    /\ req[c].pc = "write"
    /\ planet' = Accrued(req[c].planet, req[c].rates, req[c].now)
    /\ req' = [req EXCEPT ![c].pc = AfterAccrual(c), ![c].planet = NoPlanet,
                          ![c].now = 0, ![c].rates = NoRates]
    /\ res' = NoResponse
    /\ UNCHANGED <<now, ticks, buildings, queue, nextId, started,
                   run, runs, spent>>
    /\ debited' = debited
    /\ inRow' = 0
    /\ UNCHANGED <<calc, demoInitialized, users, planets, ensure, ships, shipQueue>>

\* The planet is read again after the accrual.
Reread(c) ==
    /\ req[c].pc = "reread"
    /\ req' = [req EXCEPT ![c].pc = "lookup", ![c].updatedPlanet = planet]
    /\ res' = NoResponse
    /\ UNCHANGED <<now, ticks, planet, buildings, queue, nextId, started,
                   run, runs, spent>>
    /\ debited' = debited
    /\ inRow' = 0
    /\ UNCHANGED <<calc, demoInitialized, users, planets, ensure, ships, shipQueue>>

\* getBuildingByType, the target level and its cost, and the affordability check.
Lookup(c) ==
    /\ req[c].pc = "lookup"
    /\ \E id \in getBuildingByType(buildings, req[c].buildingType) :
         LET targetLevel == CurrentLevel(buildings, id) + 1
             cost == calculateUpgradeCost(req[c].buildingType, targetLevel)
         IN IF ~Affordable(req[c].updatedPlanet, cost)
            THEN /\ res' = Response(c, "InsufficientResources")
                 /\ req' = [req EXCEPT ![c] = NoReq]
            ELSE /\ res' = NoResponse
                 /\ req' = [req EXCEPT ![c].pc = "debit",
                                       ![c].existingBuilding = id,
                                       ![c].targetLevel = targetLevel,
                                       ![c].cost = cost]
    /\ UNCHANGED <<now, ticks, planet, buildings, queue, nextId, started,
                   run, runs, spent>>
    /\ debited' = debited
    /\ inRow' = 0
    /\ UNCHANGED <<calc, demoInitialized, users, planets, ensure, ships, shipQueue>>

\* storage.updatePlanetResources with the balances read before minus the
\* cost; then the completion time is taken from the clock.
Debit(c) ==
    /\ req[c].pc = "debit"
    /\ planet' = [planet EXCEPT
         !.metal   = req[c].updatedPlanet.metal - Scaled(req[c].cost).metal,
         !.crystal = req[c].updatedPlanet.crystal - Scaled(req[c].cost).crystal,
         !.oxygen  = req[c].updatedPlanet.oxygen - Scaled(req[c].cost).oxygen]
    /\ req' = [req EXCEPT
         ![c].pc = "getqueue",
         ![c].completesAt =
             now + calculateConstructionTime(req[c].buildingType, req[c].targetLevel)]
    /\ res' = NoResponse
    /\ UNCHANGED <<now, ticks, buildings, queue, nextId, started,
                   run, runs, spent>>
    /\ debited' = [metal   |-> debited.metal + req[c].cost.metal,
                   crystal |-> debited.crystal + req[c].cost.crystal,
                   oxygen  |-> debited.oxygen + req[c].cost.oxygen]
    /\ inRow' = 0
    /\ UNCHANGED <<calc, demoInitialized, users, planets, ensure, ships, shipQueue>>

\* getConstructionQueue: the position is the length of the planet's queue.
GetQueue(c) ==
    /\ req[c].pc = "getqueue"
    /\ req' = [req EXCEPT
         ![c].pc = IF req[c].existingBuilding = 0 THEN "create" ELSE "flag",
         ![c].position = Cardinality(queue)]
    /\ res' = NoResponse
    /\ UNCHANGED <<now, ticks, planet, buildings, queue, nextId, started,
                   run, runs, spent>>
    /\ debited' = debited
    /\ inRow' = 0
    /\ UNCHANGED <<calc, demoInitialized, users, planets, ensure, ships, shipQueue>>

\* createBuilding at level 0 when the type has no row.
Create(c) ==
    /\ req[c].pc = "create"
    /\ buildings' = Append(buildings, NewBuilding(req[c].buildingType, 0))
    /\ req' = [req EXCEPT ![c].pc = "flag",
                          ![c].existingBuilding = Len(buildings) + 1]
    /\ res' = NoResponse
    /\ UNCHANGED <<now, ticks, planet, queue, nextId, started, run, runs, spent>>
    /\ debited' = debited
    /\ inRow' = 0
    /\ UNCHANGED <<calc, demoInitialized, users, planets, ensure, ships, shipQueue>>

\* updateBuilding(existingBuilding.id, { isConstructing: true }).
Flag(c) ==
    /\ req[c].pc = "flag"
    /\ buildings' = [buildings EXCEPT ![req[c].existingBuilding].isConstructing = TRUE]
    /\ req' = [req EXCEPT ![c].pc = "enqueue"]
    /\ res' = NoResponse
    /\ UNCHANGED <<now, ticks, planet, queue, nextId, started, run, runs, spent>>
    /\ debited' = debited
    /\ inRow' = 0
    /\ UNCHANGED <<calc, demoInitialized, users, planets, ensure, ships, shipQueue>>

\* addToConstructionQueue and the success answer.
Enqueue(c) ==
    /\ req[c].pc = "enqueue"
    /\ queue' = queue \cup {[id |-> nextId,
                             buildingId |-> req[c].existingBuilding,
                             buildingType |-> req[c].buildingType,
                             targetLevel |-> req[c].targetLevel,
                             completesAt |-> req[c].completesAt,
                             position |-> req[c].position]}
    /\ nextId' = nextId + 1
    /\ res' = Response(c, "ok")
    /\ spent' = [metal   |-> spent.metal + req[c].cost.metal,
                 crystal |-> spent.crystal + req[c].cost.crystal,
                 oxygen  |-> spent.oxygen + req[c].cost.oxygen]
    /\ req' = [req EXCEPT ![c] = NoReq]
    /\ UNCHANGED <<now, ticks, planet, buildings, started, run, runs>>
    /\ debited' = debited
    /\ inRow' = 0
    /\ UNCHANGED <<calc, demoInitialized, users, planets, ensure, ships, shipQueue>>

\* GET /api/player/resources: the rates are read and the answer is sent.
Report(c) ==
    /\ req[c].pc = "report"
    /\ res' = Response(c, "ok")
    /\ req' = [req EXCEPT ![c] = NoReq]
    /\ UNCHANGED <<now, ticks, planet, buildings, queue, nextId, started,
                   run, runs, spent>>
    /\ debited' = debited
    /\ inRow' = 0
    /\ UNCHANGED <<calc, demoInitialized, users, planets, ensure, ships, shipQueue>>

\* A storage call of the handler throws: the catch block answers 500.
\* Nothing that was written before is undone.
Throw(c) ==
    /\ ~Idle(c)
    /\ res' = Response(c, "Failed")
    /\ req' = [req EXCEPT ![c] = NoReq]
    /\ UNCHANGED <<now, ticks, planet, buildings, queue, nextId, started,
                   run, runs, spent>>
    /\ debited' = debited
    /\ inRow' = 0
    /\ UNCHANGED <<calc, demoInitialized, users, planets, ensure, ships, shipQueue>>

\* ------------------------------------------- processCompletedConstructions
RunIdle(t) == run[t].pc = "idle"

\* The run counters stop counting at the larger of the two run bounds, so
\* that the timer can fire without end.
RunsCap == IF MaxRuns > MaxConcurrentRuns THEN MaxRuns ELSE MaxConcurrentRuns

Counted(n) == IF n < RunsCap THEN n + 1 ELSE n

\* Where a run goes after its loop over the constructions.  The ship build
\* queue only ever shrinks, so when it is empty getCompletedShipBuilds will
\* return nothing and the run is over.
AfterBuildings == IF shipQueue = {} THEN "idle" ELSE "ships"

\* getCompletedConstructions: the due entries, in the order the database
\* returns them.
RunFetch(t) ==
    /\ RunIdle(t)
    /\ runs' = Counted(runs)
    /\ \E order \in Orders(getCompletedConstructions(queue, now)) :
         run' = [run EXCEPT ![t].pc = IF order = <<>> THEN AfterBuildings ELSE "apply",
                            ![t].completed = order]
    /\ res' = NoResponse
    /\ UNCHANGED <<now, ticks, planet, buildings, queue, nextId, req, started, spent>>
    /\ debited' = debited
    /\ inRow' = IF getCompletedConstructions(queue, now) = {} THEN Counted(inRow) ELSE inRow
    /\ UNCHANGED <<calc, demoInitialized, users, planets, ensure, ships, shipQueue>>

\* The target level is applied to the building of the entry.
RunApply(t) ==
    /\ run[t].pc = "apply"
    /\ LET construction == Head(run[t].completed)
       IN IF construction.buildingId /= 0
          THEN buildings' = [buildings EXCEPT
                   ![construction.buildingId].level = construction.targetLevel,
                   ![construction.buildingId].isConstructing = FALSE]
          ELSE buildings' = Append(buildings,
                   NewBuilding(construction.buildingType, construction.targetLevel))
    /\ run' = [run EXCEPT ![t].pc = "remove"]
    /\ res' = NoResponse
    /\ UNCHANGED <<now, ticks, planet, queue, nextId, req, started, runs, spent>>
    /\ debited' = debited
    /\ inRow' = inRow
    /\ UNCHANGED <<calc, demoInitialized, users, planets, ensure, ships, shipQueue>>

\* removeFromQueue(construction.id), then the next entry of the batch.
RunRemove(t) ==
    /\ run[t].pc = "remove"
    /\ queue' = removeFromQueue(queue, Head(run[t].completed).id)
    /\ run' = [run EXCEPT
         ![t].pc = IF Tail(run[t].completed) = <<>> THEN AfterBuildings ELSE "apply",
         ![t].completed = Tail(run[t].completed)]
    /\ res' = NoResponse
    /\ UNCHANGED <<now, ticks, planet, buildings, nextId, req, started,
                   runs, spent>>
    /\ debited' = debited
    /\ inRow' = IF Tail(run[t].completed) = <<>> THEN Counted(inRow) ELSE inRow
    /\ UNCHANGED <<calc, demoInitialized, users, planets, ensure, ships, shipQueue>>

\* getCompletedShipBuilds: the due ship builds, in the order the database
\* returns them.
RunFetchShips(t) ==
    /\ run[t].pc = "ships"
    /\ \E order \in Orders(getCompletedShipBuilds(shipQueue, now)) :
         run' = [run EXCEPT ![t].pc = IF order = <<>> THEN "idle" ELSE "getShip",
                            ![t].completedShips = order]
    /\ res' = NoResponse
    /\ inRow' = inRow
    /\ UNCHANGED <<now, ticks, planet, buildings, queue, nextId, req, started,
                   runs, spent, debited, calc, demoInitialized, users, planets,
                   ensure, ships, shipQueue>>

\* getShipByType for the ship build at the head of the batch.
RunGetShip(t) ==
    /\ run[t].pc = "getShip"
    /\ \E id \in getShipByType(ships, Head(run[t].completedShips).shipType) :
         run' = [run EXCEPT
             ![t].pc = "putShip",
             ![t].existingShip = id,
             ![t].existingQuantity = IF id = 0 THEN 0 ELSE ships[id].quantity]
    /\ res' = NoResponse
    /\ inRow' = inRow
    /\ UNCHANGED <<now, ticks, planet, buildings, queue, nextId, req, started,
                   runs, spent, debited, calc, demoInitialized, users, planets,
                   ensure, ships, shipQueue>>

\* updateShipQuantity(existingShip.id, existingShip.quantity + quantity), or
\* createShip when no row was found.
RunPutShip(t) ==
    /\ run[t].pc = "putShip"
    /\ LET shipBuild == Head(run[t].completedShips)
       IN IF run[t].existingShip /= 0
          THEN ships' = [ships EXCEPT ![run[t].existingShip].quantity =
                            run[t].existingQuantity + shipBuild.quantity]
          ELSE ships' = Append(ships, [shipType |-> shipBuild.shipType,
                                       quantity |-> shipBuild.quantity])
    /\ run' = [run EXCEPT ![t].pc = "removeShip"]
    /\ res' = NoResponse
    /\ inRow' = inRow
    /\ UNCHANGED <<now, ticks, planet, buildings, queue, nextId, req, started,
                   runs, spent, debited, calc, demoInitialized, users, planets,
                   ensure, shipQueue>>

\* removeFromShipQueue(shipBuild.id), then the next ship build of the batch.
RunRemoveShip(t) ==
    /\ run[t].pc = "removeShip"
    /\ shipQueue' = removeFromShipQueue(shipQueue, Head(run[t].completedShips).id)
    /\ run' = [run EXCEPT
         ![t].pc = IF Tail(run[t].completedShips) = <<>> THEN "idle" ELSE "getShip",
         ![t].completedShips = Tail(run[t].completedShips),
         ![t].existingShip = 0,
         ![t].existingQuantity = 0]
    /\ res' = NoResponse
    /\ inRow' = inRow
    /\ UNCHANGED <<now, ticks, planet, buildings, queue, nextId, req, started,
                   runs, spent, debited, calc, demoInitialized, users, planets,
                   ensure, ships>>

\* A storage call of the run throws (updateBuilding, createBuilding or
\* removeFromQueue): the loop has no handler of its own, so the exception
\* leaves processCompletedConstructions and is logged by the interval
\* callback.  The rest of the batch is dropped and nothing is undone.
RunThrow(t) ==
    /\ ~RunIdle(t)
    /\ run' = [run EXCEPT ![t] = NoRun]
    /\ res' = NoResponse
    /\ UNCHANGED <<now, ticks, planet, buildings, queue, nextId, req, started,
                   runs, spent>>
    /\ debited' = debited
    /\ inRow' = 0
    /\ UNCHANGED <<calc, demoInitialized, users, planets, ensure, ships, shipQueue>>

\* --------------------------------------------------------------- bootstrap
\* ensureDemoPlayer, called first by every handler.  Each storage call is a
\* step; the flag is read when the call starts and set after the last await.
EnsureStart(c) ==
    /\ ensure[c] = "idle"
    /\ Idle(c)
    /\ started' = started + 1
    /\ ensure' = [ensure EXCEPT ![c] = IF demoInitialized THEN "idle" ELSE "getUser"]
    /\ res' = NoResponse
    /\ inRow' = 0
    /\ UNCHANGED <<now, ticks, planet, buildings, queue, nextId, req, run, runs,
                   spent, debited, calc, demoInitialized, users, planets,
                   ships, shipQueue>>

\* getUserByUsername("demo")
EnsureGetUser(c) ==
    /\ ensure[c] = "getUser"
    /\ ensure' = [ensure EXCEPT ![c] = IF users > 0 THEN "getPlanet" ELSE "createUser"]
    /\ res' = NoResponse
    /\ inRow' = 0
    /\ UNCHANGED <<now, ticks, planet, buildings, queue, nextId, req, started, run,
                   runs, spent, debited, calc, demoInitialized, users, planets,
                   ships, shipQueue>>

\* createUser: username is unique, so the insert of a second "demo" row
\* throws and the handler's catch block answers 500.
EnsureCreateUser(c) ==
    /\ ensure[c] = "createUser"
    /\ IF users = 0
       THEN /\ users' = 1
            /\ ensure' = [ensure EXCEPT ![c] = "getPlanet"]
            /\ res' = NoResponse
       ELSE /\ users' = users
            /\ ensure' = [ensure EXCEPT ![c] = "idle"]
            /\ res' = Response(c, "Failed")
    /\ inRow' = 0
    /\ UNCHANGED <<now, ticks, planet, buildings, queue, nextId, req, started, run,
                   runs, spent, debited, calc, demoInitialized, planets,
                   ships, shipQueue>>

\* getPlanetByUserId; when a planet exists the flag is set and the call ends.
EnsureGetPlanet(c) ==
    /\ ensure[c] = "getPlanet"
    /\ IF planets > 0
       THEN /\ ensure' = [ensure EXCEPT ![c] = "idle"]
            /\ demoInitialized' = TRUE
       ELSE /\ ensure' = [ensure EXCEPT ![c] = "createPlanet"]
            /\ demoInitialized' = demoInitialized
    /\ res' = NoResponse
    /\ inRow' = 0
    /\ UNCHANGED <<now, ticks, planet, buildings, queue, nextId, req, started, run,
                   runs, spent, debited, calc, users, planets, ships, shipQueue>>

\* initializeNewPlayer: createPlanet.  Nothing keeps the planets of a user
\* to one.  The variable planet is the first row of the user, the one the
\* handlers work with.
InitializeCreatePlanet(c) ==
    /\ ensure[c] = "createPlanet"
    /\ planets' = planets + 1
    /\ planet' = IF planets = 0 THEN NewPlanet ELSE planet
    /\ ensure' = [ensure EXCEPT
         ![c] = IF planets = 0 THEN "createBuildings" ELSE "createOtherBuildings"]
    /\ res' = NoResponse
    /\ inRow' = 0
    /\ UNCHANGED <<now, ticks, buildings, queue, nextId, req, started, run,
                   runs, spent, debited, calc, demoInitialized, users,
                   ships, shipQueue>>

\* initializeNewPlayer: the three createBuilding calls for the planet just
\* created (no other step of the bootstrap reads the buildings), after which
\* ensureDemoPlayer sets the flag.  The variable buildings holds the rows of
\* the first planet only.
InitializeCreateBuildings(c) ==
    /\ ensure[c] \in {"createBuildings", "createOtherBuildings"}
    /\ buildings' = IF ensure[c] = "createBuildings"
                    THEN buildings \o StarterBuildings
                    ELSE buildings
    /\ demoInitialized' = TRUE
    /\ ensure' = [ensure EXCEPT ![c] = "idle"]
    /\ res' = NoResponse
    /\ inRow' = 0
    /\ UNCHANGED <<now, ticks, planet, queue, nextId, req, started, run,
                   runs, spent, debited, calc, users, planets, ships, shipQueue>>

\* ------------------------------------------------------------------- clock
Advance(seconds) ==
    /\ ticks' = ticks + 1
    /\ now' = now + seconds
    /\ res' = NoResponse
    /\ UNCHANGED <<planet, buildings, queue, nextId, req, started, run,
                   runs, spent>>
    /\ debited' = debited
    /\ inRow' = 0
    /\ UNCHANGED <<calc, demoInitialized, users, planets, ensure, ships, shipQueue>>

Tick == Advance(TickSeconds)

\* ---------------------------------------------------------- specifications
ClientStart(c) ==
    \/ \E buildingType \in ReqTypes : StartUpgrade(c, buildingType)
    \/ StartResources(c)

ClientStep(c) ==
    \/ AccrueRead(c)
    \/ AccrueRates(c)
    \/ AccrueWrite(c)
    \/ Reread(c)
    \/ Lookup(c)
    \/ Debit(c)
    \/ GetQueue(c)
    \/ Create(c)
    \/ Flag(c)
    \/ Enqueue(c)
    \/ Report(c)
    \/ Throw(c)

RunStep(t) ==
    \/ RunApply(t)
    \/ RunRemove(t)
    \/ RunThrow(t)

\* Requests and timer runs interleave at every await.
Next ==
    \/ started < MaxConcurrentRequests /\ \E c \in Clients : ClientStart(c)
    \/ \E c \in Clients : ClientStep(c)
    \/ runs < MaxConcurrentRuns /\ \E t \in Timers : RunFetch(t)
    \/ \E t \in Timers : RunStep(t)
    \/ ticks < MaxConcurrentTicks /\ Tick

Spec == Init /\ [][Next]_vars

\* No handler and no timer run is between two of its storage calls.
Quiescent ==
    /\ \A c \in Clients : Idle(c)
    /\ \A t \in Timers : RunIdle(t)

\* One operation at a time: an operation starts, and the clock advances,
\* only when no other operation is in flight.  Only one handler and one
\* run are ever in flight, so the first of each serves them all.
SeqNext ==
    \/ Quiescent /\ started < MaxRequests /\ ClientStart("c1")
    \/ Quiescent /\ runs < MaxRuns /\ RunFetch("t1")
    \/ Quiescent /\ ticks < MaxTicks /\ Tick
    \/ ClientStep("c1")
    \/ RunStep("t1")

SeqSpec == Init /\ [][SeqNext]_vars

\* The interval timer fires again and again while requests arrive and the
\* clock advances: one handler and one run interleave at every await, and
\* the storage calls of the run succeed.
LiveNext ==
    \/ started < MaxLiveRequests /\ ClientStart("c1")
    \/ ClientStep("c1")
    \/ RunFetch("t1")
    \/ RunApply("t1")
    \/ RunRemove("t1")
    \/ ticks < MaxLiveTicks /\ Tick

\* setInterval keeps calling processCompletedConstructions, an awaited
\* storage call of a run returns, and time passes.
LiveSpec ==
    /\ Init
    /\ [][LiveNext]_vars
    /\ WF_vars(RunFetch("t1"))
    /\ WF_vars(RunApply("t1"))
    /\ WF_vars(RunRemove("t1"))
    /\ WF_vars(ticks < MaxLiveTicks /\ Tick)

\* The resource ledger alone: the building levels stay as they are and
\* nothing is spent.  The planet is a starter planet whose buildings have
\* any level up to MaxLedgerLevel, each of them operational or under
\* construction, or the late-game planet LatePlanet.
Building(buildingType, level, isConstructing) ==
    [NewBuilding(buildingType, level) EXCEPT !.isConstructing = isConstructing]

LedgerLevels == 1..MaxLedgerLevel

EarlyPlanets ==
    {<< Building("metal_mine", l[1], f[1]),
        Building("crystal_refinery", l[2], f[2]),
        Building("energy_plant", l[3], f[3]) >> :
        l \in [1..3 -> LedgerLevels], f \in [1..3 -> BOOLEAN]}

LatePlanet == << NewBuilding("metal_mine", 2),
                 NewBuilding("energy_plant", 7),
                 NewBuilding("fleet_dock", 7),
                 NewBuilding("research_lab", 7),
                 NewBuilding("shipyard", 7),
                 NewBuilding("defense_platform", 7) >>

\* The queue entries of the buildings under construction, admitted at time 0
\* in the order of the rows.
Constructing(bs) == {i \in DOMAIN bs : bs[i].isConstructing}

EntriesFor(bs) ==
    {[id |-> Cardinality({j \in Constructing(bs) : j <= i}),
      buildingId |-> i,
      buildingType |-> bs[i].buildingType,
      targetLevel |-> bs[i].level + 1,
      completesAt |-> calculateConstructionTime(bs[i].buildingType, bs[i].level + 1),
      position |-> Cardinality({j \in Constructing(bs) : j < i})] :
        i \in Constructing(bs)}

LedgerInit ==
    /\ now = 0
    /\ ticks = 0
    /\ planet = NewPlanet
    /\ buildings \in EarlyPlanets \cup {LatePlanet}
    /\ queue = EntriesFor(buildings)
    /\ nextId = Cardinality(queue) + 1
    /\ req = [c \in Clients |-> NoReq]
    /\ res = NoResponse
    /\ started = 0
    /\ run = [t \in Timers |-> NoRun]
    /\ runs = 0
    /\ spent = ZeroCost
    /\ debited = ZeroCost
    /\ inRow = 0
    /\ calc = NoCalc
    /\ Bootstrapped
    /\ NoFleet

\* GET /api/player/resources, one request at a time, and the clock.
LedgerNext ==
    \/ Quiescent /\ started < MaxLedgerRequests /\ StartResources("c1")
    \/ AccrueRead("c1")
    \/ AccrueRates("c1")
    \/ AccrueWrite("c1")
    \/ Report("c1")
    \/ Quiescent /\ ticks < MaxLedgerTicks /\ Advance(ShortSeconds)
    \/ Quiescent /\ ticks < MaxLedgerTicks /\ Advance(TickSeconds)

LedgerSpec == LedgerInit /\ [][LedgerNext]_vars

\* The four progression functions alone: one evaluation for a catalog type
\* and a level from 1 to MaxLevel.
CatalogInit ==
    /\ now = 0
    /\ ticks = 0
    /\ planet = NewPlanet
    /\ buildings = StarterBuildings
    /\ queue = {}
    /\ nextId = 1
    /\ req = [c \in Clients |-> NoReq]
    /\ res = NoResponse
    /\ started = 0
    /\ run = [t \in Timers |-> NoRun]
    /\ runs = 0
    /\ spent = ZeroCost
    /\ debited = ZeroCost
    /\ inRow = 0
    /\ calc \in {[NoCalc EXCEPT !.buildingType = buildingType, !.level = level] :
                   buildingType \in DOMAIN BUILDING_DEFINITIONS, level \in 1..MaxLevel}
    /\ Bootstrapped
    /\ NoFleet

Evaluate ==
    /\ ~calc.evaluated
    /\ calc' = [calc EXCEPT
         !.evaluated = TRUE,
         !.cost = calculateUpgradeCost(calc.buildingType, calc.level),
         !.production = calculateProductionRate(calc.buildingType, calc.level),
         !.time = calculateConstructionTime(calc.buildingType, calc.level),
         !.energy = calculateEnergyConsumption(calc.buildingType, calc.level)]
    /\ UNCHANGED <<now, ticks, planet, buildings, queue, nextId, req, res, started,
                   run, runs, spent, debited, inRow,
                   demoInitialized, users, planets, ensure, ships, shipQueue>>

\* The client evaluates its own copy for the same type and level.
EvaluateClient ==
    /\ ~calc.clientEvaluated
    /\ LET building == gameData_BUILDING_DEFINITIONS[calc.buildingType]
       IN calc' = [calc EXCEPT
            !.clientEvaluated = TRUE,
            !.clientCost = gameData_calculateUpgradeCost(building, calc.level),
            !.clientTime = gameData_calculateConstructionTime(building, calc.level),
            !.clientEnergy = gameData_calculateEnergyConsumption(building, calc.level)]
    /\ UNCHANGED <<now, ticks, planet, buildings, queue, nextId, req, res, started,
                   run, runs, spent, debited, inRow,
                   demoInitialized, users, planets, ensure, ships, shipQueue>>

CatalogNext == Evaluate \/ EvaluateClient

CatalogSpec == CatalogInit /\ [][CatalogNext]_vars

\* Requests that name a slot, one operation at a time.  createPlanet has
\* run; the starter buildings exist, or none of them does (the first
\* createBuilding of initializeNewPlayer failed).
SlotInit ==
    /\ now = 0
    /\ ticks = 0
    /\ planet = NewPlanet
    /\ buildings \in {<<>>, StarterBuildings}
    /\ queue = {}
    /\ nextId = 1
    /\ req = [c \in Clients |-> NoReq]
    /\ res = NoResponse
    /\ started = 0
    /\ run = [t \in Timers |-> NoRun]
    /\ runs = 0
    /\ spent = ZeroCost
    /\ debited = ZeroCost
    /\ inRow = 0
    /\ calc = NoCalc
    /\ Bootstrapped
    /\ NoFleet

SlotNext ==
    \/ /\ Quiescent
       /\ started < MaxSlotRequests
       /\ \E buildingType \in ReqTypes, slotIndex \in Slots :
              StartUpgradeSlot("c1", buildingType, slotIndex)
    \/ Quiescent /\ started < MaxSlotRequests /\ StartResources("c1")
    \/ ClientStep("c1")
    \/ Quiescent /\ runs < MaxSlotRuns /\ RunFetch("t1")
    \/ RunStep("t1")
    \/ Quiescent /\ ticks < MaxSlotTicks /\ Advance(ScenarioSeconds)

SlotSpec == SlotInit /\ [][SlotNext]_vars

\* The ledger under a clock that is also set back: the server's clock is
\* corrected by SkewSeconds between two requests, so that lastResourceUpdate
\* can lie ahead of it.
SkewNext ==
    \/ LedgerNext
    \/ Quiescent /\ ticks < MaxLedgerTicks /\ now >= SkewSeconds /\ Advance(0 - SkewSeconds)

SkewSpec == LedgerInit /\ [][SkewNext]_vars

\* The first requests after a start of the server, interleaved at every
\* storage call of ensureDemoPlayer: on an empty database, or on one that a
\* previous process has populated.
BootInit ==
    /\ now = 0
    /\ ticks = 0
    /\ queue = {}
    /\ nextId = 1
    /\ req = [c \in Clients |-> NoReq]
    /\ res = NoResponse
    /\ started = 0
    /\ run = [t \in Timers |-> NoRun]
    /\ runs = 0
    /\ spent = ZeroCost
    /\ debited = ZeroCost
    /\ inRow = 0
    /\ calc = NoCalc
    /\ NoFleet
    /\ demoInitialized = FALSE
    /\ ensure = [c \in Clients |-> "idle"]
    /\ \/ users = 0 /\ planets = 0 /\ planet = NoPlanet /\ buildings = <<>>
       \/ users = 1 /\ planets = 1 /\ planet = NewPlanet /\ buildings = StarterBuildings

BootNext ==
    \E c \in Clients :
        \/ started < MaxBootRequests /\ EnsureStart(c)
        \/ EnsureGetUser(c)
        \/ EnsureCreateUser(c)
        \/ EnsureGetPlanet(c)
        \/ InitializeCreatePlanet(c)
        \/ InitializeCreateBuildings(c)

BootSpec == BootInit /\ [][BootNext]_vars

\* The ship half of the timer: two ship builds are due, a fighter build on a
\* planet that has fighters docked and a cruiser build on a planet that has
\* no cruiser, and the runs of the startup call and of the interval overlap
\* at every storage call.
ShipInit ==
    /\ now = 0
    /\ ticks = 0
    /\ planet = NewPlanet
    /\ buildings = StarterBuildings
    /\ queue = {}
    /\ nextId = 1
    /\ req = [c \in Clients |-> NoReq]
    /\ res = NoResponse
    /\ started = 0
    /\ run = [t \in Timers |-> NoRun]
    /\ runs = 0
    /\ spent = ZeroCost
    /\ debited = ZeroCost
    /\ inRow = 0
    /\ calc = NoCalc
    /\ Bootstrapped
    /\ ships = <<[shipType |-> "fighter", quantity |-> DockedQuantity]>>
    /\ shipQueue = {[id |-> 1, shipType |-> "fighter", quantity |-> BuildQuantity,
                     completesAt |-> 0],
                    [id |-> 2, shipType |-> "cruiser", quantity |-> BuildQuantity,
                     completesAt |-> 0]}

ShipNext ==
    \E t \in Timers :
        \/ runs < MaxShipRuns /\ RunFetch(t)
        \/ RunFetchShips(t)
        \/ RunGetShip(t)
        \/ RunPutShip(t)
        \/ RunRemoveShip(t)

ShipSpec == ShipInit /\ [][ShipNext]_vars

\* ------------------------------------------------------------ properties
\* The outstanding queue entries that reference building b.
EntriesOf(q, b) == {e \in q : e.buildingId = b}

\* The step is a step of handler c.
StepOf(c) == req'[c] /= req[c]

\* The handler c answers with `status` in this step.
Answers(c, status) == res' = Response(c, status)

\* No handler gave up after its debit: every debit written belongs to an
\* upgrade that was answered with success.
NoFailedAdmit == debited = spent

\* C1: an upgrade of a building that is under construction is rejected: no
\* step adds a queue entry for a building that already has an outstanding
\* entry, so the queue holds no second entry for it.
C1_NoSecondEntry ==
    [][\A e \in queue' \ queue : EntriesOf(queue, e.buildingId) = {}]_vars

\* C2: two concurrent upgrades never debit from the same balance snapshot:
\* when every handler has finished, none has failed and no accrual was
\* written, each balance is the starting balance minus the summed cost of the
\* upgrades that succeeded, and is not negative.
C2_NoLostDebit ==
    (Quiescent /\ NoFailedAdmit /\ planet.lastResourceUpdate = 0) =>
        /\ planet.metal = NewPlanet.metal - Scaled(spent).metal
        /\ planet.crystal = NewPlanet.crystal - Scaled(spent).crystal
        /\ planet.oxygen = NewPlanet.oxygen - Scaled(spent).oxygen
        /\ planet.metal >= 0 /\ planet.crystal >= 0 /\ planet.oxygen >= 0

\* C3: with one operation at a time, no balance of the planet is negative.
C3_BalancesNonNegative ==
    /\ planet.metal >= 0
    /\ planet.crystal >= 0
    /\ planet.oxygen >= 0

\* C3 witness: an upgrade was paid for, an accrual was written at a later
\* time and the upgrade was resolved.
C3_Witness ==
    /\ Quiescent
    /\ spent.metal > 0
    /\ planet.lastResourceUpdate > 0
    /\ buildings[1].level = 2

\* C4: in every step the level of each building stays or grows, and it
\* changes only in the step of a run that applies a queue entry.
C4_LevelOnlyGrowsByResolve ==
    [][\A b \in DOMAIN buildings :
          /\ buildings'[b].level >= buildings[b].level
          /\ buildings'[b].level /= buildings[b].level =>
                \E t \in Timers : run[t].pc = "apply" /\ run'[t].pc = "remove"]_vars

\* C5: between operations, a building is flagged isConstructing exactly when
\* one outstanding queue entry references it, and no building has two.
C5_FlagIffOneEntry ==
    (Quiescent /\ NoFailedAdmit) =>
        \A b \in DOMAIN buildings :
            /\ buildings[b].isConstructing <=> Cardinality(EntriesOf(queue, b)) = 1
            /\ Cardinality(EntriesOf(queue, b)) <= 1

\* C6: a run that meets an entry another run has already deleted leaves the
\* buildings as they are.
C6_ResolvedOnce ==
    [][\A t \in Timers :
          (/\ run[t].pc = "apply"
           /\ run'[t].pc = "remove"
           /\ Head(run[t].completed) \notin queue) => buildings' = buildings]_vars

\* C7: when a run has completed and neither the clock nor another operation
\* has moved since, no entry is due, and a further run finds nothing and
\* leaves buildings, queue and balances as they are.
C7_SecondRunNoOp ==
    [][/\ (Quiescent' /\ inRow' >= 1) => getCompletedConstructions(queue', now') = {}
       /\ \A t \in Timers :
            (inRow >= 1 /\ RunIdle(t) /\ run'[t] /= run[t]) =>
                /\ run'[t].pc = "idle"
                /\ UNCHANGED <<buildings, queue, planet>>]_vars

\* C7 witness: two runs in a row, the first of which resolved an upgrade.
C7_Witness ==
    /\ Quiescent
    /\ inRow = 2
    /\ runs = 2
    /\ buildings[1].level = 2
    /\ queue = {}

\* The cost of the next level of the building that an upgrade of
\* buildingType addresses, and whether some balance of the stored planet is
\* below it.
C8_Short(buildingType) ==
    \E id \in getBuildingByType(buildings, buildingType) :
        LET level == IF id = 0 THEN 0 ELSE buildings[id].level
            cost == calculateUpgradeCost(buildingType, level + 1)
        IN \/ planet.metal < cost.metal * SecondsPerHour
           \/ planet.crystal < cost.crystal * SecondsPerHour
           \/ planet.oxygen < cost.oxygen * SecondsPerHour

\* C8: the affordability check of an upgrade answers InsufficientResources
\* exactly when some balance is below the cost of the target level, and up to
\* that answer the handler debits nothing, creates and flags no building and
\* adds no queue entry.
C8_InsufficientIffShort ==
    [][\A c \in Clients :
          /\ (StepOf(c) /\ req[c].pc = "lookup" /\ ~Answers(c, "Failed")) =>
                (Answers(c, "InsufficientResources") <=> C8_Short(req[c].buildingType))
          /\ Answers(c, "InsufficientResources") => req[c].pc = "lookup"
          /\ (StepOf(c) /\ req[c].pc \in {"accrue", "rates", "write", "reread", "lookup"}) =>
                /\ buildings' = buildings
                /\ queue' = queue
                /\ planet'.metal >= planet.metal
                /\ planet'.crystal >= planet.crystal
                /\ planet'.oxygen >= planet.oxygen]_vars

\* C8 witness: an upgrade was answered InsufficientResources after its
\* accrual was written.
C8_Witness ==
    /\ res.status = "InsufficientResources"
    /\ now > 0
    /\ planet.lastResourceUpdate = now

C10_AllOrNothing ==
    [][\A c \in Clients :
          (Answers(c, "Failed") /\ req[c].pc \in {"getqueue", "create", "flag", "enqueue"}) =>
              /\ planet'.metal = req[c].updatedPlanet.metal
              /\ planet'.crystal = req[c].updatedPlanet.crystal
              /\ planet'.oxygen = req[c].updatedPlanet.oxygen
              /\ \A b \in DOMAIN buildings' :
                    buildings'[b].isConstructing => EntriesOf(queue', b) /= {}]_vars

\* The entries of a batch belong to different buildings.
OnePerBuilding(completed) ==
    \A i, j \in DOMAIN completed :
        completed[i].buildingId = completed[j].buildingId => i = j

\* C11: a run stops only behind the last entry of its batch: when a storage
\* call fails for one due entry, the run still goes on to every other due
\* entry it fetched (entries of different buildings).
C11_BatchSurvivesFailure ==
    [][\A t \in Timers :
          (~RunIdle(t) /\ RunIdle(t)' /\ OnePerBuilding(run[t].completed)) =>
              Len(run[t].completed) = 1]_vars

\* The queue holds the entry with this id.
Admitted(id) == \E e \in queue : e.id = id

\* The clock of the behaviour has made its last advance and the entry with
\* this id is not due.
NeverDue(id) ==
    /\ ticks = MaxLiveTicks
    /\ \E e \in queue : e.id = id /\ e.completesAt > now

\* The run t applies the head of its batch in this step: afterwards the
\* building of the entry has the target level and is not under construction.
AppliesHead(t) ==
    /\ run[t].pc = "apply"
    /\ run'[t].completed = run[t].completed
    /\ LET e == Head(run[t].completed)
       IN /\ buildings'[e.buildingId].level >= e.targetLevel
          /\ ~buildings'[e.buildingId].isConstructing

C13_Conservation ==
    (Quiescent /\ planet.lastResourceUpdate = 0) =>
        /\ planet.metal = NewPlanet.metal - Scaled(spent).metal
        /\ planet.crystal = NewPlanet.crystal - Scaled(spent).crystal
        /\ planet.oxygen = NewPlanet.oxygen - Scaled(spent).oxygen

\* C14: with the building levels fixed and nothing spent, no step lowers a
\* balance: a later accrual leaves each balance at or above what an earlier
\* accrual left, whatever the energy efficiency.
C14_AccrualMonotonic ==
    [][/\ planet'.metal >= planet.metal
       /\ planet'.crystal >= planet.crystal
       /\ planet'.oxygen >= planet.oxygen]_vars

\* C14 witness: two accruals were written at different times on a planet
\* whose energy plant is under construction (efficiency 0).
C14_Witness ==
    /\ Quiescent
    /\ planet.lastResourceUpdate = now
    /\ now = 2 * TickSeconds
    /\ started = 2
    /\ ticks = 2
    /\ calculateResourceRates(buildings).energyProduction = 0
    /\ calculateResourceRates(buildings).energyConsumption > 0

IsFloorOfShare(n, baseRate, production, consumption) ==
    /\ n * consumption <= baseRate * production
    /\ baseRate * production < (n + 1) * consumption

\* C16: the rates that calculateResourceRates returns have the effective
\* rates equal to the base rates when the consumption is 0 or covered by the
\* production (efficiency 1), and equal to
\* floor(baseRate * production / consumption) for each of the three
\* resources when the consumption exceeds the production.
C16_EffectiveRates ==
    \A c \in Clients :
        req[c].pc = "write" =>
            LET r == req[c].rates
            IN IF r.energyConsumption = 0 \/ r.energyProduction >= r.energyConsumption
               THEN /\ r.effectiveMetalRate = r.metalRate
                    /\ r.effectiveCrystalRate = r.crystalRate
                    /\ r.effectiveOxygenRate = r.oxygenRate
               ELSE /\ IsFloorOfShare(r.effectiveMetalRate, r.metalRate,
                                      r.energyProduction, r.energyConsumption)
                    /\ IsFloorOfShare(r.effectiveCrystalRate, r.crystalRate,
                                      r.energyProduction, r.energyConsumption)
                    /\ IsFloorOfShare(r.effectiveOxygenRate, r.oxygenRate,
                                      r.energyProduction, r.energyConsumption)

\* n is Math.floor(x * (num/den)^(level - 1)): the integer with
\* n <= x * (num/den)^(level - 1) < n + 1.
IsFloorOfPower(n, x, num, den, level) ==
    /\ n * Pow(den, level - 1) <= x * Pow(num, level - 1)
    /\ x * Pow(num, level - 1) < (n + 1) * Pow(den, level - 1)

\* C17: for every catalog building and level from 1 on, each cost component
\* is floor(base * 1.5^(level-1)), the production is
\* floor(base * level * 1.1^(level-1)), the construction time is
\* floor(base * 1.2^(level-1)) and the energy consumption is base * level;
\* for the metal mine: metal cost 135 at level 3, production 66 at level 2
\* and construction time 103 at level 4.
C17_FlooredFormulas ==
    calc.evaluated =>
        LET def == BUILDING_DEFINITIONS[calc.buildingType]
        IN /\ IsFloorOfPower(calc.cost.metal, def.baseCost.metal, 3, 2, calc.level)
           /\ IsFloorOfPower(calc.cost.crystal, def.baseCost.crystal, 3, 2, calc.level)
           /\ IsFloorOfPower(calc.cost.oxygen, def.baseCost.oxygen, 3, 2, calc.level)
           /\ IsFloorOfPower(calc.production, def.baseProductionRate * calc.level,
                             11, 10, calc.level)
           /\ IsFloorOfPower(calc.time, def.baseConstructionTime, 6, 5, calc.level)
           /\ calc.energy = def.energyConsumption * calc.level
           /\ calc.buildingType = "metal_mine" =>
                 /\ calc.level = 3 => calc.cost.metal = 135
                 /\ calc.level = 2 => calc.production = 66
                 /\ calc.level = 4 => calc.time = 103

\* C17 witness: the construction time of a metal mine at level 4 was
\* evaluated, a value whose formula is not a whole number (103.68).
C17_Witness ==
    /\ calc.evaluated
    /\ calc.buildingType = "metal_mine"
    /\ calc.level = 4
    /\ calc.time = 103

\* The rows of one building type.
RowsOf(bs, buildingType) == {i \in DOMAIN bs : bs[i].buildingType = buildingType}

\* No building of this type is built: the only rows of the type, if any, are
\* level-0 rows that an upgrade has created.
NoneBuilt(bs, buildingType) == \A b \in RowsOf(bs, buildingType) : bs[b].level = 0

\* The first request is an upgrade of the metal mine, made at time 0.
FirstMine(c) ==
    /\ started = 1
    /\ now = 0
    /\ req[c].op = "upgrade"
    /\ req[c].buildingType = "metal_mine"

\* The only request so far was an upgrade of the metal mine, admitted at time
\* 0 on a planet that had no metal mine; then the clock advanced and a run
\* has completed.
MineResolved ==
    /\ Quiescent
    /\ started = 1
    /\ spent = [metal |-> 60, crystal |-> 15, oxygen |-> 0]
    /\ planet.lastResourceUpdate = 0
    /\ Cardinality(RowsOf(buildings, "metal_mine")) = 1
    /\ now >= 61
    /\ inRow >= 1

\* C18: on a planet with 500 metal and no metal mine, the upgrade of the
\* metal mine is not rejected; when it is answered with success the balances
\* are lower by (60, 15, 0) and the queue holds exactly one entry, with
\* target level 1 and completesAt = now + 60 s; after the clock has advanced
\* 61 s and a run has completed, the metal mine has level 1, is not under
\* construction, and the queue is empty.
C18_EndToEnd ==
    [][\A c \in Clients :
          /\ (FirstMine(c) /\ NoneBuilt(buildings, "metal_mine") /\ StepOf(c)) =>
                /\ ~Answers(c, "InsufficientResources")
                /\ ~Answers(c, "InvalidType")
                /\ Answers(c, "ok") =>
                      /\ planet'.metal = NewPlanet.metal - 60 * SecondsPerHour
                      /\ planet'.crystal = NewPlanet.crystal - 15 * SecondsPerHour
                      /\ planet'.oxygen = NewPlanet.oxygen
                      /\ Cardinality(queue') = 1
                      /\ \A e \in queue' : /\ e.buildingType = "metal_mine"
                                            /\ e.targetLevel = 1
                                            /\ e.completesAt = now + 60
          /\ MineResolved' =>
                /\ queue' = {}
                /\ \A b \in RowsOf(buildings', "metal_mine") :
                      /\ buildings'[b].level = 1
                      /\ ~buildings'[b].isConstructing]_vars

\* C18 witness: the metal mine of the scenario is built and the queue is empty.
C18_Witness ==
    /\ MineResolved
    /\ now = ScenarioSeconds
    /\ queue = {}
    /\ Len(buildings) = 1
    /\ buildings[1] = NewBuilding("metal_mine", 1)

\* The planet has no row of this type at this slot.
NoBuildingAt(bs, buildingType, slotIndex) ==
    ~\E i \in DOMAIN bs : /\ bs[i].buildingType = buildingType
                           /\ bs[i].slotIndex = slotIndex

\* C19: an upgrade addresses the slot it names: when the planet has no row
\* at (buildingType, slotIndex), the lookup takes the current level as 0, so
\* that the target level is 1 and a new row is created, and the row that is
\* created has that slotIndex.
C19_SlotAddressed ==
    [][\A c \in Clients :
          /\ (/\ req[c].pc = "lookup"
              /\ req'[c].pc = "debit"
              /\ NoBuildingAt(buildings, req[c].buildingType, req[c].slotIndex)) =>
                /\ req'[c].targetLevel = 1
                /\ req'[c].existingBuilding = 0
          /\ (req[c].pc = "create" /\ req'[c].pc = "flag") =>
                buildings'[Len(buildings')].slotIndex = req[c].slotIndex]_vars

\* C20: an upgrade that is answered with success has added exactly one queue
\* entry, in the step that answers; the entry references a building of the
\* requested type (the existing one or the level-0 row the upgrade created),
\* its target level is the level of that building + 1, its completesAt is the
\* time of the admit + floor(baseConstructionTime * 1.2^(targetLevel-1))
\* seconds, and the building is flagged isConstructing; no step of the
\* handler changes the level of a building.
C20_AdmitCreatesEntry ==
    [][\A c \in Clients :
          (StepOf(c) /\ req[c].op = "upgrade") =>
              /\ \A b \in DOMAIN buildings : buildings'[b].level = buildings[b].level
              /\ \A b \in DOMAIN buildings' \ DOMAIN buildings : buildings'[b].level = 0
              /\ queue' /= queue => Answers(c, "ok")
              /\ Answers(c, "ok") =>
                    \E e \in queue' \ queue :
                        /\ queue' = queue \cup {e}
                        /\ e.buildingId \in DOMAIN buildings'
                        /\ e.buildingType = req[c].buildingType
                        /\ buildings'[e.buildingId].buildingType = e.buildingType
                        /\ e.targetLevel = buildings'[e.buildingId].level + 1
                        /\ IsFloorOfPower(e.completesAt - now,
                              BUILDING_DEFINITIONS[e.buildingType].baseConstructionTime,
                              6, 5, e.targetLevel)
                        /\ buildings'[e.buildingId].isConstructing]_vars

\* C20 witness: two upgrades were answered with success, one of an existing
\* building and one that created its level-0 row, and both entries are in
\* the queue.
C20_Witness ==
    /\ res = Response("c1", "ok")
    /\ Cardinality(queue) = 2
    /\ \E e \in queue : buildings[e.buildingId].level = 0 /\ e.targetLevel = 1
    /\ \E e \in queue : buildings[e.buildingId].level = 1 /\ e.targetLevel = 2
    /\ \A e \in queue : buildings[e.buildingId].isConstructing

\* The buildings with one of them flagged as under construction.
WhileConstructing(bs, b) == [bs EXCEPT ![b].isConstructing = TRUE]

\* C21: the time a building spent under construction is credited without
\* that building.  The starter metal mine was admitted for upgrade at time 0
\* (the only admit, and lastResourceUpdate is still 0) and has been resolved
\* to level 2; the construction took at least calculateConstructionTime
\* seconds, so the first accrual written afterwards credits at most that time
\* at the rate without the mine plus the rest at the rate with the mine at
\* its new level.
C21_NoCreditWhileConstructing ==
    [][\A c \in Clients :
         (/\ StepOf(c)
          /\ req[c].pc = "write"
          /\ NoFailedAdmit
          /\ nextId = 2
          /\ queue = {}
          /\ spent = calculateUpgradeCost("metal_mine", 2)
          /\ buildings[1].level = 2
          /\ ~buildings[1].isConstructing
          /\ planet.lastResourceUpdate = 0) =>
             LET construction == calculateConstructionTime("metal_mine", 2)
                 during == calculateResourceRates(WhileConstructing(buildings, 1))
                 after == calculateResourceRates(buildings)
             IN planet'.metal - planet.metal <=
                    during.effectiveMetalRate * construction
                    + after.effectiveMetalRate
                        * (planet'.lastResourceUpdate - construction)]_vars

\* The buildings with every one of them flagged, or none of them.
AllConstructing(bs, flag) == [b \in DOMAIN bs |-> [bs[b] EXCEPT !.isConstructing = flag]]

\* C22: an accrual and an admit on the same planet lose nothing of each
\* other.  When a GET /api/player/resources answers and the only other
\* request so far was an upgrade that added its entry, the metal balance is
\* the initial balance, plus the accrual up to lastResourceUpdate (at no less
\* than the rate with every building under construction and at no more than
\* the rate of all buildings at their levels), minus the cost of the admit.
C22_NoLostUpdate ==
    [][\A c \in Clients :
         (/\ req[c].pc = "report"
          /\ Answers(c, "ok")
          /\ Quiescent'
          /\ NoFailedAdmit
          /\ started = 2
          /\ nextId = 2) =>
             LET lowest == calculateResourceRates(AllConstructing(buildings, TRUE))
                 highest == calculateResourceRates(AllConstructing(buildings, FALSE))
                 settled == NewPlanet.metal - Scaled(spent).metal
             IN /\ planet.metal >=
                    settled + lowest.effectiveMetalRate * planet.lastResourceUpdate
                /\ planet.metal <=
                    settled + highest.metalRate * planet.lastResourceUpdate]_vars

\* C23: the positions of the outstanding entries give their order of
\* admission: of two outstanding entries of different buildings, the one
\* admitted earlier (ids are handed out in admission order) has the strictly
\* smaller position.
C23_PositionsFifo ==
    \A e1, e2 \in queue :
        (e1.id < e2.id /\ e1.buildingId /= e2.buildingId) =>
            e1.position < e2.position

\* The credit is the exact product of the rate, the efficiency
\* min(1, production / consumption) and the elapsed time.
IsUnflooredCredit(credit, rate, production, consumption, seconds) ==
    IF consumption > 0 /\ production < consumption
    THEN credit * consumption = rate * production * seconds
    ELSE credit = rate * seconds

\* C24: an accrual credits each resource with the unfloored product of its
\* summed rate, the energy efficiency and the elapsed time.
C24_UnflooredCredit ==
    [][\A c \in Clients :
         (StepOf(c) /\ req[c].pc = "write") =>
             LET old == req[c].planet
                 rates == req[c].rates
                 seconds == req[c].now - old.lastResourceUpdate
             IN /\ IsUnflooredCredit(planet'.metal - old.metal, rates.metalRate,
                        rates.energyProduction, rates.energyConsumption, seconds)
                /\ IsUnflooredCredit(planet'.crystal - old.crystal, rates.crystalRate,
                        rates.energyProduction, rates.energyConsumption, seconds)
                /\ IsUnflooredCredit(planet'.oxygen - old.oxygen, rates.oxygenRate,
                        rates.energyProduction, rates.energyConsumption, seconds)]_vars

\* The production of resourceType by the first n buildings, those under
\* construction counting for nothing.
RECURSIVE ProductionOfFirst(_, _, _)
ProductionOfFirst(bs, n, resourceType) ==
    IF n = 0 THEN 0
    ELSE ProductionOfFirst(bs, n - 1, resourceType)
         + (IF /\ ~bs[n].isConstructing
               /\ BUILDING_DEFINITIONS[bs[n].buildingType].resourceType = resourceType
            THEN calculateProductionRate(bs[n].buildingType, bs[n].level)
            ELSE 0)

\* The energy consumption of the first n buildings, those under construction
\* counting for nothing.
RECURSIVE ConsumptionOfFirst(_, _)
ConsumptionOfFirst(bs, n) ==
    IF n = 0 THEN 0
    ELSE ConsumptionOfFirst(bs, n - 1)
         + (IF ~bs[n].isConstructing
            THEN calculateEnergyConsumption(bs[n].buildingType, bs[n].level)
            ELSE 0)

\* C25: the rates an accrual works with are the baselines 20/10/5 plus the
\* production of every building that is not under construction, and the
\* energy production and consumption are summed over those buildings only: a
\* building under construction adds nothing to any of them.
C25_ConstructingContributesNothing ==
    \A c \in Clients :
        req[c].pc = "write" =>
            LET rates == req[c].rates
                n == Len(buildings)
            IN /\ rates.metalRate = 20 + ProductionOfFirst(buildings, n, "metal")
               /\ rates.crystalRate = 10 + ProductionOfFirst(buildings, n, "crystal")
               /\ rates.oxygenRate = 5 + ProductionOfFirst(buildings, n, "oxygen")
               /\ rates.energyProduction = ProductionOfFirst(buildings, n, "energy")
               /\ rates.energyConsumption = ConsumptionOfFirst(buildings, n)

\* The rates were computed while a metal mine of level 1 or more was under
\* construction and another building was not.
C25_Witness ==
    \E c \in Clients :
        /\ req[c].pc = "write"
        /\ \E i, j \in DOMAIN buildings :
             /\ buildings[i].buildingType = "metal_mine"
             /\ buildings[i].isConstructing
             /\ buildings[i].level >= 1
             /\ ~buildings[j].isConstructing

\* C26: an accrual call with less than 0.001 hours elapsed, or with the
\* clock behind lastResourceUpdate, changes nothing: the call goes on
\* without computing rates or writing, the planet row stays as it is, and no
\* step ever takes a resource away.
C26_DebouncedNoOp ==
    [][/\ \A c \in Clients :
            (/\ StepOf(c)
             /\ req[c].pc = "accrue"
             /\ 1000 * (now - planet.lastResourceUpdate) < SecondsPerHour) =>
                /\ planet' = planet
                /\ req'[c].pc = "report"
       /\ planet'.metal >= planet.metal
       /\ planet'.crystal >= planet.crystal
       /\ planet'.oxygen >= planet.oxygen]_vars

\* A call has passed its accrual while the clock was behind
\* lastResourceUpdate, on a planet that produces.
C26_Witness ==
    \E c \in Clients :
        /\ req[c].pc = "report"
        /\ now < planet.lastResourceUpdate
        /\ calculateResourceRates(buildings).effectiveMetalRate > 0

\* C29: a processCompletedConstructions run touches only what is due.  A
\* step of a run deletes only entries of its batch with completesAt <= now
\* and changes or creates only buildings that such an entry references; the
\* entries that are not due stay, every other building stays, and the planet
\* row stays.
C29_TouchesOnlyDue ==
    [][\A t \in Timers :
         run'[t] /= run[t] =>
             LET batch == IF RunIdle(t) THEN getCompletedConstructions(queue, now)
                          ELSE {run[t].completed[i] : i \in DOMAIN run[t].completed}
                 due == {e \in batch : e.completesAt <= now}
             IN /\ planet' = planet
                /\ queue' \subseteq queue
                /\ queue \ queue' \subseteq due
                /\ Len(buildings') >= Len(buildings)
                /\ \A b \in DOMAIN buildings :
                     buildings'[b] /= buildings[b] =>
                         \E e \in due : e.buildingId = b
                /\ Len(buildings') > Len(buildings) =>
                         \E e \in due : e.buildingId = 0]_vars

\* Two entries were admitted; a run has resolved and removed the one that
\* was due and has ended, and the one that is not due is still outstanding.
C29_Witness ==
    /\ nextId = 3
    /\ runs = 1
    /\ RunIdle("t1")
    /\ Cardinality(queue) = 1
    /\ \A e \in queue : e.completesAt > now
    /\ \E b \in DOMAIN buildings : buildings[b].level >= 1 /\ ~buildings[b].isConstructing

\* C27: the catalog is one: for every building type and level, the client's
\* definitions and formulas give the same upgrade cost, construction time and
\* energy consumption as the server's.
C27_ClientMatchesServer ==
    (calc.evaluated /\ calc.clientEvaluated) =>
        /\ calc.clientCost = calc.cost
        /\ calc.clientTime = calc.time
        /\ calc.clientEnergy = calc.energy

\* C28: concurrent first requests bootstrap the demo player once.  The demo
\* user exists once and owns one planet (initializeNewPlayer, which creates
\* a planet each time it runs, has run at most once), no request is answered
\* with a failure, and once the requests are through the user and its planet
\* exist.
C28_BootstrappedOnce ==
    /\ users <= 1
    /\ planets <= 1
    /\ res.status /= "Failed"
    /\ (started > 0 /\ \A c \in Clients : ensure[c] = "idle") =>
           (users = 1 /\ planets = 1)

\* The ships of one type on the planet, summed over the rows of the type.
RECURSIVE QuantityOfFirst(_, _, _)
QuantityOfFirst(ss, n, shipType) ==
    IF n = 0 THEN 0
    ELSE QuantityOfFirst(ss, n - 1, shipType)
         + (IF ss[n].shipType = shipType THEN ss[n].quantity ELSE 0)

\* C30: overlapping runs add a completed ship build once.  When the runs
\* have ended and the ship build queue is empty, the planet has the docked
\* fighters plus those of the one fighter build, the cruisers of the one
\* cruiser build, and one ships row for each of the two types.
C30_ShipsAddedOnce ==
    (shipQueue = {} /\ \A t \in Timers : RunIdle(t)) =>
        /\ QuantityOfFirst(ships, Len(ships), "fighter") = DockedQuantity + BuildQuantity
        /\ QuantityOfFirst(ships, Len(ships), "cruiser") = BuildQuantity
        /\ Len(ships) = 2

====
